---- MODULE Spec2Model ----
(***************************************************************************)
(* Model of forex_scanner.py: the ForexScanner class (get_exchange_rate,   *)
(* scan_multiple_pairs, display_results, continuous_scan) and main().      *)
(*                                                                         *)
(* Three specifications share the variables and the actions:               *)
(*   SpecFetch  get_exchange_rate as a function of the HTTP response       *)
(*   Spec       the scanner's methods called with any pair list/interval   *)
(*   SpecMain   main(): the prompts, the fixed pair list, interval 300     *)
(***************************************************************************)
EXTENDS Integers, Sequences, FiniteSets, TLC

VARIABLES
    pc,              \* position of the single thread of control
    api_key,         \* main: api_key after .strip(), a sequence of characters
    choice,          \* main: choice after .strip(), a sequence of characters
    mode,            \* "none" | "single" | "continuous": which caller runs the scan
    currency_pairs,  \* argument of scan_multiple_pairs / continuous_scan
    interval,        \* argument of continuous_scan
    i,               \* scan_multiple_pairs: enumerate index (1-based here)
    results,         \* scan_multiple_pairs: the dict under construction / returned
    rate_data,       \* value returned by the last get_exchange_rate call
    printed,         \* lines printed by the last get_exchange_rate call
    out,             \* lines printed by the last display_results call
    exc,             \* "none", or the exception that left the program uncaught
    gap,             \* time elapsed since the last outbound request was issued
    sep,             \* time between the last two outbound requests (-1: fewer than two)
    sepCross,        \* TRUE when the last two requests belong to different cycles
    attempts,        \* indices of the pairs requested in the current cycle, in order
    delays,          \* number of time.sleep(12) calls completed in the current cycle
    fetched,         \* values get_exchange_rate returned in the current cycle, in order
    requested,       \* TRUE once any outbound request has been issued
    response         \* the HTTP response handed to get_exchange_rate (SpecFetch)

vars == <<pc, api_key, choice, mode, currency_pairs, interval, i, results,
          rate_data, printed, out, exc, gap, sep, sepCross, attempts, delays,
          fetched, requested, response>>

-----------------------------------------------------------------------------
(* Bounds of the model *)

\* longest pair list handed to the scanner in Spec
MaxPairs == 3
\* longest time a request takes to answer (the code's timeout is 10)
MaxLatency == 1
\* longest line typed at a prompt of main()
MaxInput == 2

(* Constants of the program *)

\* time.sleep(12) between two requests of a cycle
RATE_LIMIT_DELAY == 12
\* main(): continuous_scan(currency_pairs, interval=300)
MAIN_INTERVAL == 300

-----------------------------------------------------------------------------
(* JSON values as the code sees them after response.json() *)

RT   == "Realtime Currency Exchange Rate"
NOTE == "Note"
ERR  == "Error Message"

F_FROM == "1. From_Currency Code"
F_TO   == "3. To_Currency Code"
F_RATE == "5. Exchange Rate"
F_BID  == "8. Bid Price"
F_ASK  == "9. Ask Price"
F_LAST == "6. Last Refreshed"
F_TZ   == "7. Time Zone"

FieldNames == {F_FROM, F_TO, F_RATE, F_BID, F_ASK, F_LAST, F_TZ}

\* a JSON value found under a key: absent, null, a string or a number
Missing == [t |-> "missing", s |-> ""]
Null    == [t |-> "null", s |-> ""]
Str(x)  == [t |-> "str", s |-> x]
Num(x)  == [t |-> "num", s |-> x]

\* Python floats: finite ones scaled by 10^4, and the two non-finite kinds
Fin(m)  == [k |-> "fin", m |-> m]
Inf     == [k |-> "inf", m |-> 0]
NaN     == [k |-> "nan", m |-> 0]

\* the text of the numerals float() accepts, with the value each denotes
FloatLiterals ==
    [x \in {"1.2345", "1.2340", "1.2350", "0", "-1.5", "inf", "nan"} |->
        CASE x = "1.2345" -> Fin(12345)
          [] x = "1.2340" -> Fin(12340)
          [] x = "1.2350" -> Fin(12350)
          [] x = "0"      -> Fin(0)
          [] x = "-1.5"   -> Fin(-15000)
          [] x = "inf"    -> Inf
          [] x = "nan"    -> NaN]

\* float(v): the exception it raises ("none" when it returns)
FloatExc(v) ==
    CASE v.t = "null" -> "TypeError"
      [] v.t = "str"  -> IF v.s \in DOMAIN FloatLiterals THEN "none" ELSE "ValueError"
      [] v.t = "num"  -> "none"
      [] OTHER        -> "KeyError"

\* float(v) where it returns
FloatVal(v) ==
    IF v.s \in DOMAIN FloatLiterals THEN FloatLiterals[v.s] ELSE NaN

\* Optional[Dict]: None is the empty sequence, a dict d is <<d>>
None == <<>>
Some(d) == <<d>>

\* truth value of an Optional[Dict] in `if rate_data:` / `if data:`
\* (a returned dict always holds seven keys, so it is never empty)
Truthy(x) == x # None

-----------------------------------------------------------------------------
(* get_exchange_rate *)

\* the dict lookups and conversions of the returned dict display, in the
\* order Python evaluates them
Lookups ==
    << [field |-> F_FROM, conv |-> "id"],
       [field |-> F_TO,   conv |-> "id"],
       [field |-> F_RATE, conv |-> "float"],
       [field |-> F_BID,  conv |-> "float"],
       [field |-> F_ASK,  conv |-> "float"],
       [field |-> F_LAST, conv |-> "id"],
       [field |-> F_TZ,   conv |-> "id"] >>

\* rate_data[field], then float() where the code converts: the exception raised
LookupExc(rd, st) ==
    IF rd.t # "obj" THEN "TypeError"
    ELSE LET v == rd.f[st.field] IN
         IF v.t = "missing" THEN "KeyError"
         ELSE IF st.conv = "float" THEN FloatExc(v)
         ELSE "none"

\* the first exception raised by lookups k.. ("none" when all of them return)
RECURSIVE FirstExc(_, _)
FirstExc(rd, k) ==
    IF k > Len(Lookups) THEN "none"
    ELSE IF LookupExc(rd, Lookups[k]) # "none" THEN LookupExc(rd, Lookups[k])
    ELSE FirstExc(rd, k + 1)

\* the dict of lines 55-63
RateDict(rd) ==
    [from         |-> rd.f[F_FROM],
     to           |-> rd.f[F_TO],
     rate         |-> FloatVal(rd.f[F_RATE]),
     bid          |-> FloatVal(rd.f[F_BID]),
     ask          |-> FloatVal(rd.f[F_ASK]),
     last_updated |-> rd.f[F_LAST],
     timezone     |-> rd.f[F_TZ]]

\* how a call ends: a returned value with the lines printed, or an exception
\* that no except clause of the function matches
Returned(v, lines) == [exc |-> "none", value |-> v, printed |-> lines]
Raised(e)          == [exc |-> e, value |-> None, printed |-> <<>>]

\* `key in data`: membership for an object (keys), an array (elements) and a
\* string (substrings); null, numbers and booleans are not iterable
InExc(data) == IF data.t \in {"null", "num"} THEN "TypeError" ELSE "none"
In(key, data) == key \in data.has

\* data[key] with a string key: only an object can be subscripted by it
SubscriptExc(data) == IF data.t = "obj" THEN "none" ELSE "TypeError"

\* lines 53-63: the branch taken when the success key is in data
SuccessBranch(data) ==
    IF SubscriptExc(data) # "none" THEN Raised("TypeError")
    ELSE LET e == FirstExc(data.payload, 1) IN
         CASE e = "none"      -> Returned(Some(RateDict(data.payload)), <<>>)
           [] e = "TypeError" -> Raised("TypeError")
           [] OTHER           -> Returned(None, << <<"Data parsing error", e>> >>)

\* lines 64-66
NoteBranch(data) ==
    IF SubscriptExc(data) # "none" THEN Raised("TypeError")
    ELSE Returned(None, << <<"API Rate Limit", data.note>> >>)

\* lines 67-69
ErrorBranch(data) ==
    IF SubscriptExc(data) # "none" THEN Raised("TypeError")
    ELSE Returned(None, << <<"Error", data.err>> >>)

\* Classify with the "Error Message" test ahead of the "Note" test
Classify_NoteAfterError(data) ==
    IF InExc(data) # "none" THEN Raised("TypeError")
    ELSE IF In(RT, data)   THEN SuccessBranch(data)
    ELSE IF In(ERR, data)  THEN ErrorBranch(data)
    ELSE IF In(NOTE, data) THEN NoteBranch(data)
    ELSE Returned(None, << <<"Unexpected response format", "">> >>)

\* lines 53-72: the if/elif chain over the parsed body
Classify(data) ==
    IF InExc(data) # "none" THEN Raised("TypeError")
    ELSE IF In(RT, data)   THEN SuccessBranch(data)
    ELSE IF In(NOTE, data) THEN NoteBranch(data)
    ELSE IF In(ERR, data)  THEN ErrorBranch(data)
    ELSE Returned(None, << <<"Unexpected response format", "">> >>)

\* lines 48-79.  resp.transport: "ok", or the RequestException raised by
\* session.get / raise_for_status.  resp.json: "ok", or the exception type
\* response.json() raises on a body that is not JSON (requests' own
\* JSONDecodeError, a RequestException, or a plain ValueError, depending on
\* the library version; both are caught)
get_exchange_rate(resp) ==
    IF resp.transport # "ok"
        THEN Returned(None, << <<"Network error", resp.transport>> >>)
    ELSE IF resp.json = "RequestException"
        THEN Returned(None, << <<"Network error", "JSONDecodeError">> >>)
    ELSE IF resp.json = "ValueError"
        THEN Returned(None, << <<"Data parsing error", "ValueError">> >>)
    ELSE Classify(resp.data)

-----------------------------------------------------------------------------
(* The responses the model feeds to get_exchange_rate *)

Field(a, b, c, d, e, g, h) ==
    (F_FROM :> a) @@ (F_TO :> b) @@ (F_RATE :> c) @@ (F_BID :> d) @@
    (F_ASK :> e) @@ (F_LAST :> g) @@ (F_TZ :> h)

GoodFields ==
    Field(Str("EUR"), Str("USD"), Str("1.2345"), Str("1.2340"), Str("1.2350"),
          Str("2024-01-01 00:00:00"), Str("UTC"))

NoFields == [n \in FieldNames |-> Missing]

TextVals == {Missing, Str("EUR")}
NumVals  == {Missing, Null, Str("1.2345"), Str("0"), Str("-1.5"), Str("inf"),
             Str("nan"), Str("abc"), Num("1.2345")}
LastVals == {Missing, Null, Str("2024-01-01 00:00:00")}

\* the value under the success key: an object with any mix of field values ...
ObjPayloads ==
    { [t |-> "obj", f |-> Field(a, b, c, d, e, g, h)] :
        a \in TextVals, b \in TextVals, c \in NumVals, d \in NumVals,
        e \in NumVals, g \in LastVals, h \in TextVals }

\* ... or a JSON value that is not an object
NonObjPayloads == { [t |-> k, f |-> NoFields] : k \in {"null", "num", "str", "arr"} }

NoPayload == [t |-> "null", f |-> NoFields]

NoteTexts == {"call frequency is 5 per minute", "daily limit reached"}
ErrTexts  == {"Invalid API call"}

Body(t, has, payload, note, err) ==
    [t |-> t, has |-> has, payload |-> payload, note |-> note, err |-> err]

BodiesOver(payloads) ==
       { Body(t, {}, NoPayload, "", "") : t \in {"null", "num"} }
  \cup { Body(t, has, NoPayload, "", "") :
            t \in {"str", "arr"}, has \in SUBSET {RT, NOTE, ERR} }
  \cup { Body("obj", has, IF RT \in has THEN p ELSE NoPayload,
              IF NOTE \in has THEN n ELSE "", IF ERR \in has THEN e ELSE "") :
            has \in SUBSET {RT, NOTE, ERR}, p \in payloads,
            n \in NoteTexts, e \in ErrTexts }

NoBody == Body("null", {}, NoPayload, "", "")

ResponsesOver(payloads) ==
       { [transport |-> tr, json |-> "ok", data |-> NoBody] :
            tr \in {"Timeout", "ConnectionError", "HTTPError"} }
  \cup { [transport |-> "ok", json |-> j, data |-> NoBody] :
            j \in {"RequestException", "ValueError"} }
  \cup { [transport |-> "ok", json |-> "ok", data |-> b] : b \in BodiesOver(payloads) }

\* every response, for get_exchange_rate on its own (SpecFetch)
Responses == ResponsesOver(ObjPayloads \cup NonObjPayloads)

\* the responses the scan loop is fed: one per way a call can end and per
\* kind of value it can store
OkBody(has, payload) ==
    [transport |-> "ok", json |-> "ok",
     data |-> Body("obj", has, payload, IF NOTE \in has THEN "daily limit reached" ELSE "", "")]

ScanResponses ==
    { [transport |-> "Timeout", json |-> "ok", data |-> NoBody],
      [transport |-> "ok", json |-> "ok", data |-> NoBody],
      OkBody({NOTE}, NoPayload),
      OkBody({RT}, [t |-> "obj", f |-> GoodFields]),
      OkBody({RT}, [t |-> "obj", f |-> [GoodFields EXCEPT ![F_LAST] = Null]]),
      OkBody({RT}, [t |-> "obj", f |-> [GoodFields EXCEPT ![F_BID] = Str("abc")]]) }

\* a placeholder for `response` outside SpecFetch
NoResponse == [transport |-> "ok", json |-> "ok", data |-> NoBody]

-----------------------------------------------------------------------------
(* Python dicts keep insertion order; assigning to a key already present
   replaces its value in place *)

HasKey(d, k) == \E j \in 1..Len(d) : d[j].key = k

\* DictSet as a list append: a repeated key gets a second entry
DictSet_Append(d, k, v) == Append(d, [key |-> k, value |-> v])

DictSet(d, k, v) ==
    IF HasKey(d, k)
        THEN [j \in 1..Len(d) |-> IF d[j].key = k THEN [key |-> k, value |-> v] ELSE d[j]]
        ELSE Append(d, [key |-> k, value |-> v])

\* f"{from_curr}/{to_curr}"
pair_name(p) == p[1] \o "/" \o p[2]

-----------------------------------------------------------------------------
(* display_results *)

\* format(x, "<12.4f") without the padding
Format4f(x) ==
    CASE x.k = "inf" -> "inf"
      [] x.k = "nan" -> "nan"
      [] x = Fin(12345)  -> "1.2345"
      [] x = Fin(12340)  -> "1.2340"
      [] x = Fin(12350)  -> "1.2350"
      [] x = Fin(0)      -> "0.0000"
      [] x = Fin(-15000) -> "-1.5000"
      [] OTHER -> "?"

\* format(v, "<20"): str and numbers take a width, None does not
FormatStrExc(v) == IF v.t = "null" THEN "TypeError" ELSE "none"

Line(kind, pair, cells) == [kind |-> kind, pair |-> pair, cells |-> cells]

\* lines 135-138: the row printed for one entry
Row(e) ==
    IF Truthy(e.value)
        THEN LET data == e.value[1] IN
             Line("rate", e.key, <<Format4f(data.rate), Format4f(data.bid),
                                   Format4f(data.ask), data.last_updated.s>>)
        ELSE Line("failed", e.key, <<"N/A", "N/A", "N/A", "Failed">>)

RowExc(e) ==
    IF Truthy(e.value) THEN FormatStrExc(e.value[1].last_updated) ELSE "none"

\* lines 133-138: the rows printed from entry k on, up to the first entry
\* whose formatting raises
RECURSIVE Rows(_, _)
Rows(d, k) ==
    IF k > Len(d) THEN [lines |-> <<>>, exc |-> "none"]
    ELSE IF RowExc(d[k]) # "none" THEN [lines |-> <<>>, exc |-> RowExc(d[k])]
    ELSE LET rest == Rows(d, k + 1) IN
         [lines |-> <<Row(d[k])>> \o rest.lines, exc |-> rest.exc]

Banner  == Line("banner", "", <<>>)
NoData  == Line("No data available", "", <<>>)
Columns == Line("columns", "", <<"Currency Pair", "Rate", "Bid", "Ask", "Updated">>)
Footer  == Line("footer", "", <<>>)

\* lines 113-140
display_results(d) ==
    IF d = <<>> THEN [lines |-> <<Banner, NoData>>, exc |-> "none"]
    ELSE LET r == Rows(d, 1) IN
         IF r.exc # "none"
            THEN [lines |-> <<Banner, Columns>> \o r.lines, exc |-> r.exc]
            ELSE [lines |-> <<Banner, Columns>> \o r.lines \o <<Footer>>, exc |-> "none"]

-----------------------------------------------------------------------------
(* scan_multiple_pairs, continuous_scan *)

N == Len(currency_pairs)

\* the per-cycle state at the entry of scan_multiple_pairs (line 91): the
\* locals are fresh, and rate_data, printed and out describe this cycle only
EnterScan ==
    /\ pc' = "scan"
    /\ i' = 1
    /\ results' = <<>>
    /\ attempts' = <<>>
    /\ delays' = 0
    /\ fetched' = <<>>
    /\ rate_data' = None
    /\ printed' = <<>>
    /\ out' = <<>>

\* gap after d more time units; the clock is read only from the first request on
Elapse(d) == IF requested THEN gap + d ELSE gap

\* an exception nothing catches ends the program
Uncaught(e) ==
    /\ pc' = "crashed"
    /\ exc' = e

\* lines 93-104: one iteration of the for loop up to the rate-limit test; the
\* request is answered by any response after any latency
FetchPair ==
    /\ pc = "scan"
    /\ i <= N
    /\ \E resp \in ScanResponses, latency \in 0..MaxLatency :
         LET o    == get_exchange_rate(resp)
             name == pair_name(currency_pairs[i])
         IN  /\ requested' = TRUE
             /\ attempts' = Append(attempts, i)
             /\ sep' = IF requested THEN gap ELSE -1
             /\ sepCross' = (requested /\ attempts = <<>>)
             /\ gap' = latency
             /\ IF o.exc # "none"
                  THEN /\ Uncaught(o.exc)
                       /\ UNCHANGED <<i, results, rate_data, printed, fetched>>
                  ELSE /\ rate_data' = o.value
                       /\ printed' = o.printed
                       /\ fetched' = Append(fetched, o.value)
                       /\ results' = DictSet(results, name,
                                             IF Truthy(o.value) THEN o.value ELSE None)
                       /\ IF i < N
                            THEN pc' = "sleep" /\ i' = i
                            ELSE pc' = "scan" /\ i' = i + 1
                       /\ exc' = exc
    /\ UNCHANGED <<api_key, choice, mode, currency_pairs, interval, out, delays, response>>

\* RateLimitSleep with the delay skipped after a failed fetch
RateLimitSleep_SkipAfterFailure ==
    /\ pc = "sleep"
    /\ gap' = IF Truthy(rate_data) THEN Elapse(RATE_LIMIT_DELAY) ELSE gap
    /\ delays' = IF Truthy(rate_data) THEN delays + 1 ELSE delays
    /\ i' = i + 1
    /\ pc' = "scan"
    /\ UNCHANGED <<api_key, choice, mode, currency_pairs, interval, results, rate_data,
                   printed, out, exc, sep, sepCross, attempts, fetched, requested, response>>

\* lines 108-109: time.sleep(12), then the next iteration
RateLimitSleep ==
    /\ pc = "sleep"
    /\ gap' = Elapse(RATE_LIMIT_DELAY)
    /\ delays' = delays + 1
    /\ i' = i + 1
    /\ pc' = "scan"
    /\ UNCHANGED <<api_key, choice, mode, currency_pairs, interval, results, rate_data,
                   printed, out, exc, sep, sepCross, attempts, fetched, requested, response>>

\* line 111: the loop is over, results goes to the caller, which displays it
ScanReturn ==
    /\ pc = "scan"
    /\ i > N
    /\ pc' = "display"
    /\ UNCHANGED <<api_key, choice, mode, currency_pairs, interval, i, results, rate_data,
                   printed, out, exc, gap, sep, sepCross, attempts, delays, fetched,
                   requested, response>>

\* lines 211 and 156: display_results(results); main then ends, continuous_scan
\* goes on to its sleep
DisplayResults ==
    /\ pc = "display"
    /\ LET r == display_results(results) IN
         /\ out' = r.lines
         /\ IF r.exc # "none"
              THEN Uncaught(r.exc)
              ELSE /\ pc' = IF mode = "single" THEN "done" ELSE "wait"
                   /\ exc' = exc
    /\ UNCHANGED <<api_key, choice, mode, currency_pairs, interval, i, results, rate_data,
                   printed, gap, sep, sepCross, attempts, delays, fetched, requested,
                   response>>

\* lines 158-159 and back to 155: time.sleep(interval) raises ValueError for a
\* negative length; otherwise the next cycle starts
IntervalSleep ==
    /\ pc = "wait"
    /\ IF interval < 0
         THEN /\ Uncaught("ValueError")
              /\ UNCHANGED <<i, results, attempts, delays, fetched, gap, rate_data,
                             printed, out>>
         ELSE /\ gap' = Elapse(interval)
              /\ EnterScan
              /\ exc' = exc
    /\ UNCHANGED <<api_key, choice, mode, currency_pairs, interval, sep, sepCross,
                   requested, response>>

\* Ctrl+C while a scan runs: continuous_scan catches it and returns (lines
\* 161-162); in a single scan nothing catches it
KeyboardInterrupt ==
    /\ pc \in {"scan", "sleep", "display", "wait"}
    /\ IF mode = "continuous"
         THEN pc' = "stopped" /\ exc' = exc
         ELSE Uncaught("KeyboardInterrupt")
    /\ UNCHANGED <<api_key, choice, mode, currency_pairs, interval, i, results, rate_data,
                   printed, out, gap, sep, sepCross, attempts, delays, fetched, requested,
                   response>>

Scanner == FetchPair \/ RateLimitSleep \/ ScanReturn \/ DisplayResults
              \/ IntervalSleep \/ KeyboardInterrupt

\* the state every specification starts from, but for its inputs
Fresh ==
    /\ api_key = <<>>
    /\ choice = <<>>
    /\ mode = "none"
    /\ i = 1
    /\ results = <<>>
    /\ rate_data = None
    /\ printed = <<>>
    /\ out = <<>>
    /\ exc = "none"
    /\ gap = 0
    /\ sep = -1
    /\ sepCross = FALSE
    /\ attempts = <<>>
    /\ delays = 0
    /\ fetched = <<>>
    /\ requested = FALSE

-----------------------------------------------------------------------------
(* Spec: a caller runs one scan and displays it (as main does for choice 1),
   or runs continuous_scan, on any pair list and with any interval *)

Currencies == {<<"EUR", "USD">>, <<"GBP", "USD">>}

RECURSIVE ListsUpTo(_)
ListsUpTo(n) ==
    IF n = 0 THEN {<<>>}
    ELSE LET shorter == ListsUpTo(n - 1) IN
         shorter \cup { Append(l, p) : l \in {x \in shorter : Len(x) = n - 1}, p \in Currencies }

PairLists == ListsUpTo(MaxPairs)

Intervals == {-1, 0, 5, 12, 300}

Init ==
    /\ Fresh
    /\ pc = "caller"
    /\ currency_pairs \in PairLists
    /\ interval = 0
    /\ response = NoResponse

\* results = scanner.scan_multiple_pairs(pairs); scanner.display_results(results)
CallSingleScan ==
    /\ pc = "caller"
    /\ mode' = "single"
    /\ EnterScan
    /\ UNCHANGED <<api_key, choice, currency_pairs, interval, exc, gap, sep, sepCross,
                   requested, response>>

\* scanner.continuous_scan(pairs, interval), for any interval
CallContinuousScan ==
    /\ pc = "caller"
    /\ mode' = "continuous"
    /\ interval' \in Intervals
    /\ EnterScan
    /\ UNCHANGED <<api_key, choice, currency_pairs, exc, gap, sep, sepCross, requested,
                   response>>

Next == CallSingleScan \/ CallContinuousScan \/ Scanner

Spec == Init /\ [][Next]_vars

-----------------------------------------------------------------------------
(* SpecFetch: get_exchange_rate called once on any response *)

InitFetch ==
    /\ Fresh
    /\ pc = "fetch_call"
    /\ currency_pairs = <<>>
    /\ interval = 0
    /\ response \in Responses

CallGetExchangeRate ==
    /\ pc = "fetch_call"
    /\ LET o == get_exchange_rate(response) IN
         /\ rate_data' = o.value
         /\ printed' = o.printed
         /\ exc' = o.exc
         /\ pc' = IF o.exc = "none" THEN "fetch_returned" ELSE "fetch_raised"
    /\ requested' = TRUE
    /\ UNCHANGED <<api_key, choice, mode, currency_pairs, interval, i, results, out, gap,
                   sep, sepCross, attempts, delays, fetched, response>>

NextFetch == CallGetExchangeRate

SpecFetch == InitFetch /\ [][NextFetch]_vars

-----------------------------------------------------------------------------
(* SpecMain: main() *)

\* str.strip() on a line of characters
RECURSIVE LStrip(_)
LStrip(s) == IF s # <<>> /\ Head(s) = " " THEN LStrip(Tail(s)) ELSE s

RECURSIVE RStrip(_)
RStrip(s) == IF s # <<>> /\ s[Len(s)] = " " THEN RStrip(SubSeq(s, 1, Len(s) - 1)) ELSE s

Strip(s) == RStrip(LStrip(s))

RECURSIVE LinesUpTo(_, _)
LinesUpTo(chars, n) ==
    IF n = 0 THEN {<<>>}
    ELSE LET shorter == LinesUpTo(chars, n - 1) IN
         shorter \cup { Append(l, c) : l \in {x \in shorter : Len(x) = n - 1}, c \in chars }

KeyLines    == LinesUpTo({" ", "k"}, MaxInput)
ChoiceLines == LinesUpTo({" ", "1", "2", "3"}, MaxInput)

\* lines 187-193
MainPairs ==
    << <<"EUR", "USD">>, <<"GBP", "USD">>, <<"USD", "JPY">>,
       <<"USD", "CHF">>, <<"AUD", "USD">> >>

InitMain ==
    /\ Fresh
    /\ pc = "main_key"
    /\ currency_pairs = MainPairs
    /\ interval = MAIN_INTERVAL
    /\ response = NoResponse

\* lines 176-183: the key prompt; an empty key is fatal
ReadApiKey ==
    /\ pc = "main_key"
    /\ \E line \in KeyLines :
         /\ api_key' = Strip(line)
         /\ pc' = IF Strip(line) = <<>> THEN "exit1" ELSE "main_choice"
    /\ UNCHANGED <<choice, mode, currency_pairs, interval, i, results, rate_data, printed,
                   out, exc, gap, sep, sepCross, attempts, delays, fetched, requested,
                   response>>

\* ReadChoice without the final else: any other choice ends main normally
ReadChoice_NoElse ==
    /\ pc = "main_choice"
    /\ \E line \in ChoiceLines :
         /\ choice' = Strip(line)
         /\ CASE Strip(line) = <<"1">> -> mode' = "single" /\ EnterScan
              [] Strip(line) = <<"2">> -> mode' = "continuous" /\ EnterScan
              [] OTHER -> /\ pc' = "done"
                          /\ UNCHANGED <<mode, i, results, attempts, delays, fetched,
                                         rate_data, printed, out>>
    /\ UNCHANGED <<api_key, currency_pairs, interval, exc, gap, sep, sepCross, requested,
                   response>>

\* lines 205-219: the mode prompt and the dispatch on it
ReadChoice ==
    /\ pc = "main_choice"
    /\ \E line \in ChoiceLines :
         /\ choice' = Strip(line)
         /\ CASE Strip(line) = <<"1">> -> mode' = "single" /\ EnterScan
              [] Strip(line) = <<"2">> -> mode' = "continuous" /\ EnterScan
              [] OTHER -> /\ pc' = "exit1"
                          /\ UNCHANGED <<mode, i, results, attempts, delays, fetched,
                                         rate_data, printed, out>>
    /\ UNCHANGED <<api_key, currency_pairs, interval, exc, gap, sep, sepCross, requested,
                   response>>

NextMain == ReadApiKey \/ ReadChoice \/ Scanner

SpecMain == InitMain /\ [][NextMain]_vars

-----------------------------------------------------------------------------
(* Properties *)

Labels == [j \in 1..N |-> pair_name(currency_pairs[j])]

Keys(d) == [j \in 1..Len(d) |-> d[j].key]

\* the labels in order of first occurrence
RECURSIVE FirstOccurrences(_, _)
FirstOccurrences(l, k) ==
    IF k > Len(l) THEN <<>>
    ELSE IF \E j \in 1..(k - 1) : l[j] = l[k] THEN FirstOccurrences(l, k + 1)
    ELSE <<l[k]>> \o FirstOccurrences(l, k + 1)

LastIndex(label) == CHOOSE j \in 1..N : Labels[j] = label /\ \A m \in (j + 1)..N : Labels[m] # label

Distinct(l) == \A a, b \in 1..Len(l) : a # b => l[a] # l[b]

\* scan_multiple_pairs has returned its report and nothing has consumed it yet
ScanReturned == pc = "display"

\* C1 as claimed: the returned report of a non-empty pair list, duplicates
\* included, has one entry per input pair, the i-th labelled as the i-th pair.
C1_OneEntryPerPair ==
    (ScanReturned /\ N > 0) =>
        /\ Len(results) = N
        /\ \A j \in 1..N : results[j].key = Labels[j]

\* C1 amended: the returned report has one entry per distinct label, in the
\* order the labels first occur in the pair list, each holding the value of
\* the last request made for its label; so a list of pairwise distinct pairs
\* yields N entries, the i-th labelled as the i-th pair.
C1_OneEntryPerLabel ==
    ScanReturned =>
        /\ Keys(results) = FirstOccurrences(Labels, 1)
        /\ \A j \in 1..Len(results) : results[j].value = fetched[LastIndex(results[j].key)]
        /\ Distinct(Labels) => (Len(results) = N /\ Keys(results) = Labels)

\* a report returned for a list with a repeated pair, whose first request
\* returned a value that the later one replaced
C1_Witness ==
    /\ ScanReturned
    /\ N = 3
    /\ Len(results) < N
    /\ currency_pairs[1] = currency_pairs[3]
    /\ fetched[1] # fetched[3]
    /\ results[1].value = fetched[3]

\* C2 as claimed: get_exchange_rate never raises, whatever the transport
\* outcome and the response body are.
C2_NeverRaises == pc # "fetch_raised"

\* a cycle is over: the report was returned, or an exception left the scan or
\* the display (an interrupt from outside is not an outcome of a request)
CycleOver ==
    \/ pc \in {"display", "wait", "done"}
    \/ pc = "crashed" /\ exc = "TypeError"

\* C3 as claimed: whatever the outcomes of the requests, a cycle requests every
\* pair of the list exactly once, in list order, and records a result only for
\* a pair it requested.
C3_EveryPairRequestedOnce ==
    /\ \A j \in 1..Len(attempts) : attempts[j] = j
    /\ \A j \in 1..Len(results) : \E a \in 1..Len(attempts) : results[j].key = Labels[attempts[a]]
    /\ CycleOver => Len(attempts) = N

\* C4 as claimed: a cycle over N >= 1 pairs takes exactly N-1 delays, one after
\* each request but the last, whatever the outcome of the request.
C4_DelaysPerCycle ==
    /\ (pc = "scan" /\ i <= N) => delays = i - 1
    /\ (CycleOver /\ N >= 1) => delays = N - 1

CallReturnedOrRaised == pc \in {"fetch_returned", "fetch_raised"}

ObjectBody == response.transport = "ok" /\ response.json = "ok" /\ response.data.t = "obj"

Throttled ==
    /\ exc = "none"
    /\ rate_data = None
    /\ printed = << <<"API Rate Limit", response.data.note>> >>

\* C5 as claimed: a call that returns for a body with a "Note" field has
\* classified it Throttled, whatever other recognized keys the body holds.
C5_NoteAlwaysThrottled ==
    (pc = "fetch_returned" /\ ObjectBody /\ NOTE \in response.data.has) => Throttled

\* C5 amended: a body with a "Note" field and without the success payload key
\* is classified Throttled, with the provider's message, and raises nothing,
\* whether or not it also holds "Error Message"; a body that holds the success
\* payload key is never classified Throttled.
C5_NoteThrottledUnlessSuccessKey ==
    (CallReturnedOrRaised /\ ObjectBody) =>
        /\ (NOTE \in response.data.has /\ RT \notin response.data.has) => Throttled
        /\ RT \in response.data.has => ~Throttled

\* a body holding both "Note" and "Error Message" has been classified
C5_Witness ==
    /\ pc = "fetch_returned"
    /\ ObjectBody
    /\ response.data.has = {NOTE, ERR}

FinitePositive(x) == x.k = "fin" /\ x.m > 0

\* C6 as claimed: a Success carries a rate, a bid and an ask that are finite
\* and strictly positive.
C6_SuccessIsFinitePositive ==
    (pc = "fetch_returned" /\ Truthy(rate_data)) =>
        /\ FinitePositive(rate_data[1].rate)
        /\ FinitePositive(rate_data[1].bid)
        /\ FinitePositive(rate_data[1].ask)

\* C7 as claimed: no outcome of a request ends continuous_scan; only an
\* interrupt does.
C7_OnlyInterruptEndsLoop ==
    (mode = "continuous" /\ interval >= 0) => pc \notin {"crashed", "done"}

ValidChoices == { <<"1">>, <<"2">> }

TableRows == SelectSeq(out, LAMBDA l : l.kind \in {"rate", "failed"})

Displayed == out # <<>> /\ pc \in {"wait", "done", "crashed", "stopped"}

\* C9 as claimed: display_results prints one row per entry of the report, in
\* the report's order, a rate row for a success and the "N/A ... Failed" row
\* for a failure; for an empty report the "No data available" line only.
C9_OneRowPerEntry ==
    Displayed =>
        /\ Len(TableRows) = Len(results)
        /\ \A j \in 1..Len(results) :
              /\ j <= Len(TableRows)
              /\ TableRows[j].pair = results[j].key
              /\ TableRows[j].kind = "rate" <=> Truthy(results[j].value)
        /\ results = <<>> => out = <<Banner, NoData>>

\* C10 as claimed: any two consecutive requests are at least 12 apart, inside
\* a cycle and across cycles, for every interval.
C10_AlwaysDelayApart == sep # -1 => sep >= RATE_LIMIT_DELAY

\* C10 amended: two consecutive requests of one cycle are at least 12 apart;
\* the last request of a cycle and the first of the next are at least
\* `interval` apart, hence at least 12 apart when interval >= 12.
C10_DelayInCycleIntervalAcross ==
    sep # -1 =>
        /\ ~sepCross => sep >= RATE_LIMIT_DELAY
        /\ sepCross => sep >= interval
        /\ interval >= RATE_LIMIT_DELAY => sep >= RATE_LIMIT_DELAY

\* the first request of a second cycle was issued less than 12 after the last
\* request of the cycle before, in a scan of several pairs
C10_Witness ==
    /\ sepCross
    /\ sep >= 0
    /\ sep < RATE_LIMIT_DELAY
    /\ N >= 2
    /\ pc = "sleep"

====
